---- MODULE Spec2Model ----
(***************************************************************************)
(* Model of the section retrieval and rendering path of the service:       *)
(*   src/db/sections_content_retrieval.py   get_sections_content           *)
(*   src/lib/generate_markdown.py           generate_markdown              *)
(*   src/routes/fetch_routes.py             get_latest_graph_by_...        *)
(*   src/dependecies.py                     get_db_connection              *)
(* Text is a sequence of one-character strings, an ltree path a sequence   *)
(* of labels, a label a sequence of characters.                            *)
(***************************************************************************)
EXTENDS Integers, Sequences, FiniteSets, TLC

(* ------------------------------------------------------------------ *)
(* Bounds of the model                                                *)
(* ------------------------------------------------------------------ *)

\* longest section_list a caller passes
MaxPatterns == 2

\* number of changes the ingestion side makes to the section table
MaxWrites == 2

\* longest pattern and longest heading tail drawn for the ILIKE check
MaxLen == 2

(* ------------------------------------------------------------------ *)
(* Text                                                               *)
(* ------------------------------------------------------------------ *)

\* str.lower / the case folding of ILIKE, on the letters the model uses
Lower(c) ==
    CASE c = "A" -> "a"
      [] c = "B" -> "b"
      [] c = "C" -> "c"
      [] c = "D" -> "d"
      [] c = "E" -> "e"
      [] c = "X" -> "x"
      [] OTHER -> c

LowerText(t) == [i \in 1..Len(t) |-> Lower(t[i])]

\* the characters str.strip() removes
IsSpace(c) == c \in {" ", "\n", "\t", "\r"}

RECURSIVE LStrip(_)
LStrip(t) ==
    IF t = <<>> THEN <<>>
    ELSE IF IsSpace(Head(t)) THEN LStrip(Tail(t))
    ELSE t

RECURSIVE RStrip(_)
RStrip(t) ==
    IF t = <<>> THEN <<>>
    ELSE IF IsSpace(t[Len(t)]) THEN RStrip(SubSeq(t, 1, Len(t) - 1))
    ELSE t

\* str.strip()
Strip(t) == RStrip(LStrip(t))

\* sep.join(lines)
RECURSIVE Join(_, _)
Join(lines, sep) ==
    IF lines = <<>> THEN <<>>
    ELSE IF Len(lines) = 1 THEN lines[1]
    ELSE lines[1] \o sep \o Join(Tail(lines), sep)

\* "#" * level
RECURSIVE Hashes(_)
Hashes(n) == IF n <= 0 THEN <<>> ELSE <<"#">> \o Hashes(n - 1)

\* t begins with p, character for character
StartsWith(t, p) == Len(p) <= Len(t) /\ SubSeq(t, 1, Len(p)) = p

(* ------------------------------------------------------------------ *)
(* LIKE / ILIKE of the section store                                  *)
(* ------------------------------------------------------------------ *)

\* text LIKE pat with the default escape character: % any run of
\* characters, _ any one character, \ takes the next character literally
RECURSIVE LikeMatch(_, _)
LikeMatch(t, pat) ==
    IF pat = <<>> THEN t = <<>>
    ELSE IF Head(pat) = "%" THEN
        \E k \in 0..Len(t) : LikeMatch(SubSeq(t, k + 1, Len(t)), Tail(pat))
    ELSE IF Head(pat) = "_" THEN
        t # <<>> /\ LikeMatch(Tail(t), Tail(pat))
    ELSE IF Head(pat) = "\\" THEN
        /\ Len(pat) >= 2
        /\ t # <<>>
        /\ Head(t) = pat[2]
        /\ LikeMatch(Tail(t), SubSeq(pat, 3, Len(pat)))
    ELSE
        t # <<>> /\ Head(t) = Head(pat) /\ LikeMatch(Tail(t), Tail(pat))

\* text ILIKE pat
ILike(t, pat) == LikeMatch(LowerText(t), LowerText(pat))

\* section.heading ILIKE pattern || ' %'
HeadingMatches(heading, p) == ILike(heading, p \o <<" ", "%">>)

(* ------------------------------------------------------------------ *)
(* ltree paths                                                        *)
(* ------------------------------------------------------------------ *)

\* byte value of a label character
CharCode(c) ==
    CASE c = "0" -> 48
      [] c = "1" -> 49
      [] c = "2" -> 50
      [] c = "3" -> 51
      [] OTHER -> 95

Sign(n) == IF n < 0 THEN -1 ELSE IF n > 0 THEN 1 ELSE 0

\* memcmp of two labels over the shorter length, then the lengths
RECURSIVE LabelCompare(_, _)
LabelCompare(a, b) ==
    IF a = <<>> \/ b = <<>> THEN Sign(Len(a) - Len(b))
    ELSE IF CharCode(Head(a)) # CharCode(Head(b))
         THEN Sign(CharCode(Head(a)) - CharCode(Head(b)))
    ELSE LabelCompare(Tail(a), Tail(b))

\* the btree order of ltree: label by label, then the number of labels
RECURSIVE LtreeCompare(_, _)
LtreeCompare(a, b) ==
    IF a = <<>> \/ b = <<>> THEN Sign(Len(a) - Len(b))
    ELSE IF LabelCompare(Head(a), Head(b)) # 0
         THEN LabelCompare(Head(a), Head(b))
    ELSE LtreeCompare(Tail(a), Tail(b))

\* a mutant: the path compared as text, so that label 1 is a prefix of 10
RECURSIVE PathText(_)
PathText(p) ==
    IF p = <<>> THEN <<>>
    ELSE IF Len(p) = 1 THEN p[1]
    ELSE p[1] \o <<".">> \o PathText(Tail(p))

IsDescendantOrSelfByText(candidate, ancestor) ==
    StartsWith(PathText(candidate), PathText(ancestor))

\* a mutant: the strict descendants only
IsStrictDescendant(candidate, ancestor) ==
    /\ Len(ancestor) < Len(candidate)
    /\ SubSeq(candidate, 1, Len(ancestor)) = ancestor

\* candidate <@ ancestor
IsDescendantOrSelf(candidate, ancestor) ==
    /\ Len(ancestor) <= Len(candidate)
    /\ SubSeq(candidate, 1, Len(ancestor)) = ancestor

(* ------------------------------------------------------------------ *)
(* The tables                                                         *)
(* ------------------------------------------------------------------ *)

L1 == <<"1">>
L10 == <<"1", "0">>
L2 == <<"2">>

\* table document
DocumentTable ==
    { [id |-> "d1", spec |-> <<"3", "8">>, version |-> "v1"],
      [id |-> "d2", spec |-> <<"2", "4">>, version |-> "v1"] }

Sec(d, p, h, l, c) ==
    [document_id |-> d, path |-> p, heading |-> h, level |-> l, content |-> c]

\* the rows the section table can hold; paths are unique in a document
SectionUniverse ==
    { Sec("d1", <<L1>>, <<"5", ".", "2", " ", "A">>, 1, <<" ", "x", "\n">>),
      Sec("d1", <<L1, L1>>, <<"5", ".", "2", ".", "1", " ", "B">>, 2, <<"y">>),
      Sec("d1", <<L10>>, <<"5", ".", "2", "0", " ", "C">>, 1, <<" ", " ">>),
      Sec("d1", <<L10, L1>>, <<"5", ".", "2", "0", ".", "1", " ", "D">>, 2, <<"w">>),
      Sec("d1", <<L2>>, <<"5", ".", "3", " ", "E">>, 1, <<>>),
      Sec("d2", <<L1>>, <<"5", ".", "2", " ", "A">>, 1, <<"q">>) }

\* table procedure
ProcedureTable ==
    { [id |-> "p1", document_id |-> "d1",
       retrieved_top_sections |-> <<<<"5", ".", "2">>, <<"5", ".", "2", "0">>>>],
      [id |-> "p2", document_id |-> "d1",
       retrieved_top_sections |-> <<<<"9", ".", "9">>>>],
      [id |-> "p3", document_id |-> "d2",
       retrieved_top_sections |-> <<>>] }

\* table graph
GraphTable ==
    { [id |-> "g1", procedure_id |-> "p1", entity |-> "UE", version |-> 1],
      [id |-> "g2", procedure_id |-> "p1", entity |-> "ue", version |-> 2],
      [id |-> "g3", procedure_id |-> "p2", entity |-> "UE", version |-> 1],
      [id |-> "g4", procedure_id |-> "p3", entity |-> "UE", version |-> 1] }

\* LOWER() on the entity names
LowerName(e) == IF e = "UE" THEN "ue" ELSE IF e = "AMF" THEN "amf" ELSE e

ReqIds == {"r1", "r2"}
Conns == {"c1", "c2"}
DocIds == {"None", "d1", "d2", "dX"}
ProcedureIds == {"p1", "p2", "p3", "pX"}
Entities == {"UE", "ue", "AMF"}

\* the elements a caller puts in section_list: strings and one non-string
StrElem(v) == [t |-> "str", v |-> v]
NonStrElem == [t |-> "int", v |-> <<"5">>]
PatternElems ==
    { StrElem(<<"5", ".", "2">>),
      StrElem(<<"5", ".", "2", ".", "1">>),
      StrElem(<<"5", ".", "2", "0">>),
      StrElem(<<"9", ".", "9">>),
      NonStrElem }

SeqsUpTo(S, n) == UNION { [1..k -> S] : k \in 0..n }

\* section_list: None, or a list of at most MaxPatterns elements
SectionLists ==
    { [null |-> TRUE, items |-> <<>>] }
    \cup { [null |-> FALSE, items |-> l] : l \in SeqsUpTo(PatternElems, MaxPatterns) }

(* ------------------------------------------------------------------ *)
(* The queries                                                        *)
(* ------------------------------------------------------------------ *)

\* the rows of a set in the order a scan yields them
RECURSIVE TableScan(_)
TableScan(S) ==
    IF S = {} THEN <<>>
    ELSE LET x == CHOOSE y \in S : TRUE IN <<x>> \o TableScan(S \ {x})

RECURSIVE InsertByPath(_, _)
InsertByPath(x, sorted) ==
    IF sorted = <<>> THEN <<x>>
    ELSE IF LtreeCompare(x.path, Head(sorted).path) < 0 THEN <<x>> \o sorted
    ELSE <<Head(sorted)>> \o InsertByPath(x, Tail(sorted))

RECURSIVE SortByPath(_)
SortByPath(rows) ==
    IF rows = <<>> THEN <<>>
    ELSE InsertByPath(Head(rows), SortByPath(Tail(rows)))

Reverse(s) == [i \in 1..Len(s) |-> s[Len(s) + 1 - i]]

\* a mutant: ORDER BY path DESC
OrderByPathDesc(rows) == Reverse(SortByPath(rows))

\* ORDER BY path
OrderByPath(rows) == SortByPath(rows)

\* get_document_by_id
GetDocumentById(doc_id) == { d \in DocumentTable : d.id = doc_id }

\* the WHERE clause of the first query
MatchesAnyPattern(s, doc_id, patterns) ==
    /\ s.document_id = doc_id
    /\ \E i \in 1..Len(patterns) : HeadingMatches(s.heading, patterns[i].v)

\* the first query: the sections of the document a pattern selects
FindTopLevelSections(st, doc_id, patterns) ==
    { s \in st : MatchesAnyPattern(s, doc_id, patterns) }

\* a mutant: one scan per matched path, the results concatenated
RECURSIVE SubtreePerPath(_, _, _)
SubtreePerPath(st, doc_id, paths) ==
    IF paths = <<>> THEN <<>>
    ELSE LET Under(s) == s.document_id = doc_id
                         /\ IsDescendantOrSelf(s.path, Head(paths))
         IN  SelectSeq(TableScan(st), Under) \o SubtreePerPath(st, doc_id, Tail(paths))

FindSubtreeSectionsJoined(st, doc_id, paths) ==
    OrderByPath(SubtreePerPath(st, doc_id, paths))

\* the second query: the rows under any matched path, in path order
FindSubtreeSections(st, doc_id, paths) ==
    LET Under(s) == /\ s.document_id = doc_id
                    /\ \E i \in 1..Len(paths) : IsDescendantOrSelf(s.path, paths[i])
    IN  OrderByPath(SelectSeq(TableScan(st), Under))

\* a mutant: an empty result is not checked
NeverEmpty(rows) == FALSE

\* "if not rows"
IsEmptyResult(rows) == Len(rows) = 0

(* ------------------------------------------------------------------ *)
(* generate_markdown                                                  *)
(* ------------------------------------------------------------------ *)

\* a mutant: the content trimmed before it is emitted
SectionLinesTrimmed(section) ==
    <<Hashes(section.level) \o <<" ">> \o section.heading, <<>>>>
    \o (IF Strip(section.content) # <<>>
        THEN <<Strip(section.content), <<>>>> ELSE <<>>)

\* the lines one iteration of the loop appends
SectionLines(section) ==
    <<Hashes(section.level) \o <<" ">> \o section.heading, <<>>>>
    \o (IF Strip(section.content) # <<>>
        THEN <<section.content, <<>>>> ELSE <<>>)

RECURSIVE Flatten(_)
Flatten(groups) ==
    IF groups = <<>> THEN <<>> ELSE Head(groups) \o Flatten(Tail(groups))

MdGroups(sections_content) ==
    [i \in 1..Len(sections_content) |-> SectionLines(sections_content[i])]

GenerateMarkdown(doc_name, sections_content) ==
    LET md_lines == <<<<"#", " ">> \o doc_name, <<>>>>
                    \o Flatten(MdGroups(sections_content))
    IN  Strip(Join(md_lines, <<"\n">>))

(* ------------------------------------------------------------------ *)
(* State                                                              *)
(* ------------------------------------------------------------------ *)

VARIABLES
    probe,             \* one heading and one pattern put to the matcher
    store,             \* table section
    writes,            \* changes made to the section table so far
    free,              \* the connections the handler's pool has to give
    pc,                \* where each request is
    via,               \* "route" or "direct": who called get_sections_content
    request,           \* the path parameters of the route
    graph_row,         \* the row the route's query returned
    conn,              \* the connection a request holds
    args,              \* doc_id and section_list of get_sections_content
    cursor,            \* the cursor of get_sections_content
    document,          \* the resolved document
    sections,          \* rows of the first query
    sections_content,  \* rows of the second query
    content_paths,     \* the paths of those rows, in the same order
    md_groups,         \* the lines generate_markdown appended, per section
    outcome,           \* what get_sections_content returned or raised
    response,          \* what the route answered
    log,               \* the operations of a request, in order
    acquired,          \* how often a request took a connection
    released           \* how often a request gave one back

vars == <<probe, store, writes, free, pc, via, request, graph_row, conn, args, cursor,
          document, sections, sections_content, content_paths, md_groups,
          outcome, response, log, acquired, released>>

NoDocument == [id |-> "None", spec |-> <<>>, version |-> ""]
NoArgs == [doc_id |-> "None", section_list |-> [null |-> TRUE, items |-> <<>>]]
NoRequest == [procedure_id |-> "", entity |-> ""]
NoRow == [id |-> "", procedure_id |-> "", entity |-> "", version |-> 0,
          document_id |-> "None", retrieved_top_sections |-> <<>>]
NoResponse == [status |-> 0, context_md |-> <<>>, version |-> 0]

Pending == [status |-> "pending", type |-> "", cause |-> "", kind |-> "", value |-> <<>>]
Returned(v) == [status |-> "returned", type |-> "", cause |-> "", kind |-> "", value |-> v]
Raised(type, cause, kind) ==
    [status |-> "raised", type |-> type, cause |-> cause, kind |-> kind, value |-> <<>>]

\* except Exception as e: raise Exception(...) from e
WrapException(cause, kind) == Raised("Exception", cause, kind)

Entry(op, c, res) == [op |-> op, conn |-> c, res |-> res]

NoProbe == [heading |-> <<>>, pattern |-> <<>>, selected |-> "unset"]

Init ==
    /\ probe = NoProbe
    /\ store = SectionUniverse
    /\ writes = 0
    /\ free = Conns
    /\ pc = [r \in ReqIds |-> "idle"]
    /\ via = [r \in ReqIds |-> "none"]
    /\ request = [r \in ReqIds |-> NoRequest]
    /\ graph_row = [r \in ReqIds |-> NoRow]
    /\ conn = [r \in ReqIds |-> "none"]
    /\ args = [r \in ReqIds |-> NoArgs]
    /\ cursor = [r \in ReqIds |-> "none"]
    /\ document = [r \in ReqIds |-> NoDocument]
    /\ sections = [r \in ReqIds |-> <<>>]
    /\ sections_content = [r \in ReqIds |-> <<>>]
    /\ content_paths = [r \in ReqIds |-> <<>>]
    /\ md_groups = [r \in ReqIds |-> <<>>]
    /\ outcome = [r \in ReqIds |-> Pending]
    /\ response = [r \in ReqIds |-> NoResponse]
    /\ log = [r \in ReqIds |-> <<>>]
    /\ acquired = [r \in ReqIds |-> 0]
    /\ released = [r \in ReqIds |-> 0]

(* ------------------------------------------------------------------ *)
(* The section table changes under the readers                        *)
(* ------------------------------------------------------------------ *)

WriterDelete ==
    /\ writes < MaxWrites
    /\ \E s \in store : store' = store \ {s}
    /\ writes' = writes + 1
    /\ UNCHANGED <<probe, free, pc, via, request, graph_row, conn, args, cursor,
                   document, sections, sections_content, content_paths,
                   md_groups, outcome, response, log, acquired, released>>

WriterInsert ==
    /\ writes < MaxWrites
    /\ \E s \in SectionUniverse \ store : store' = store \cup {s}
    /\ writes' = writes + 1
    /\ UNCHANGED <<probe, free, pc, via, request, graph_row, conn, args, cursor,
                   document, sections, sections_content, content_paths,
                   md_groups, outcome, response, log, acquired, released>>

(* ------------------------------------------------------------------ *)
(* get_sections_content                                               *)
(* ------------------------------------------------------------------ *)

\* a mutant: the element types are not checked
ValidateArgsNoTypeCheck(doc_id, section_list) ==
    IF doc_id = "None" THEN "missing doc_id"
    ELSE IF section_list.null \/ section_list.items = <<>> THEN "missing section_list"
    ELSE "ok"

\* the three checks before the try block
ValidateArgs(doc_id, section_list) ==
    IF doc_id = "None" THEN "missing doc_id"
    ELSE IF section_list.null \/ section_list.items = <<>> THEN "missing section_list"
    ELSE IF \E i \in 1..Len(section_list.items) : section_list.items[i].t # "str"
         THEN "not all strings"
    ELSE "ok"

\* a caller other than the route calls get_sections_content
Call(r, c, doc_id, section_list) ==
    /\ pc[r] = "idle"
    /\ pc' = [pc EXCEPT ![r] = "call"]
    /\ via' = [via EXCEPT ![r] = "direct"]
    /\ conn' = [conn EXCEPT ![r] = c]
    /\ args' = [args EXCEPT ![r] = [doc_id |-> doc_id, section_list |-> section_list]]
    /\ UNCHANGED <<probe, store, writes, free, request, graph_row, cursor, document,
                   sections, sections_content, content_paths, md_groups, outcome,
                   response, log, acquired, released>>

\* the argument checks, then the cursor is opened
GscEnter(r) ==
    /\ pc[r] = "call"
    /\ LET v == ValidateArgs(args[r].doc_id, args[r].section_list)
       IN  IF v # "ok"
           THEN /\ outcome' = [outcome EXCEPT ![r] = Raised("ValueError", "", "InvalidArgument")]
                /\ pc' = [pc EXCEPT ![r] = "gsc_done"]
                /\ UNCHANGED <<cursor, log>>
           ELSE /\ cursor' = [cursor EXCEPT ![r] = "open"]
                /\ log' = [log EXCEPT ![r] = Append(@, Entry("cursor", conn[r], "ok"))]
                /\ pc' = [pc EXCEPT ![r] = "resolve"]
                /\ UNCHANGED outcome
    /\ UNCHANGED <<probe, store, writes, free, via, request, graph_row, conn, args,
                   document, sections, sections_content, content_paths, md_groups,
                   response, acquired, released>>

\* an exception inside the try block: the cursor closes, the handler wraps it
GscRaise(r, op, res, cause, kind) ==
    /\ outcome' = [outcome EXCEPT ![r] = WrapException(cause, kind)]
    /\ cursor' = [cursor EXCEPT ![r] = "closed"]
    /\ log' = [log EXCEPT ![r] = Append(@, Entry(op, conn[r], res))]
    /\ pc' = [pc EXCEPT ![r] = "gsc_done"]

ResolveDocument(r) ==
    /\ pc[r] = "resolve"
    /\ \E fails \in BOOLEAN :
        LET found == GetDocumentById(args[r].doc_id)
        IN  IF fails
            THEN /\ GscRaise(r, "resolve", "fail", "OperationalError", "StoreFailure")
                 /\ UNCHANGED document
            ELSE IF found = {}
            THEN /\ GscRaise(r, "resolve", "empty", "ValueError", "DocumentNotFound")
                 /\ UNCHANGED document
            ELSE /\ document' = [document EXCEPT ![r] = CHOOSE d \in found : TRUE]
                 /\ log' = [log EXCEPT ![r] = Append(@, Entry("resolve", conn[r], "ok"))]
                 /\ pc' = [pc EXCEPT ![r] = "match"]
                 /\ UNCHANGED <<outcome, cursor>>
    /\ UNCHANGED <<probe, store, writes, free, via, request, graph_row, conn, args,
                   sections, sections_content, content_paths, md_groups,
                   response, acquired, released>>

\* the orders in which a query may return the rows of a set
Orders(S) ==
    { q \in [1..Cardinality(S) -> S] : \A i, j \in 1..Cardinality(S) : i # j => q[i] # q[j] }

PatternQuery(r) ==
    /\ pc[r] = "match"
    /\ \E fails \in BOOLEAN :
        LET found == FindTopLevelSections(store, document[r].id, args[r].section_list.items)
        IN  IF fails
            THEN /\ GscRaise(r, "match", "fail", "OperationalError", "StoreFailure")
                 /\ UNCHANGED sections
            ELSE \E rows \in Orders(found) :
                 IF IsEmptyResult(rows)
                 THEN /\ GscRaise(r, "match", "empty", "ValueError", "NoMatch")
                      /\ UNCHANGED sections
                 ELSE /\ sections' = [sections EXCEPT ![r] =
                            [i \in 1..Len(rows) |->
                                [heading |-> rows[i].heading, path |-> rows[i].path]]]
                      /\ log' = [log EXCEPT ![r] =
                            Append(@, Entry("match", conn[r],
                                            IF Len(rows) = 0 THEN "empty" ELSE "ok"))]
                      /\ pc' = [pc EXCEPT ![r] = "expand"]
                      /\ UNCHANGED <<outcome, cursor>>
    /\ UNCHANGED <<probe, store, writes, free, via, request, graph_row, conn, args,
                   document, sections_content, content_paths, md_groups,
                   response, acquired, released>>

SubtreeQuery(r) ==
    /\ pc[r] = "expand"
    /\ \E fails \in BOOLEAN :
        LET sections_path == [i \in 1..Len(sections[r]) |-> sections[r][i].path]
            rows == FindSubtreeSections(store, document[r].id, sections_path)
        IN  IF fails
            THEN /\ GscRaise(r, "expand", "fail", "OperationalError", "StoreFailure")
                 /\ UNCHANGED <<sections_content, content_paths>>
            ELSE IF IsEmptyResult(rows)
            THEN /\ GscRaise(r, "expand", "empty", "ValueError", "ExpansionFailure")
                 /\ UNCHANGED <<sections_content, content_paths>>
            ELSE /\ sections_content' = [sections_content EXCEPT ![r] =
                        [i \in 1..Len(rows) |->
                            [heading |-> rows[i].heading, level |-> rows[i].level,
                             content |-> rows[i].content]]]
                 /\ content_paths' = [content_paths EXCEPT ![r] =
                        [i \in 1..Len(rows) |-> rows[i].path]]
                 /\ log' = [log EXCEPT ![r] =
                        Append(@, Entry("expand", conn[r],
                                        IF Len(rows) = 0 THEN "empty" ELSE "ok"))]
                 /\ pc' = [pc EXCEPT ![r] = "render"]
                 /\ UNCHANGED <<outcome, cursor>>
    /\ UNCHANGED <<probe, store, writes, free, via, request, graph_row, conn, args,
                   document, sections, md_groups, response, acquired, released>>

\* generate_markdown, the cursor closes, the markdown is returned
Render(r) ==
    /\ pc[r] = "render"
    /\ md_groups' = [md_groups EXCEPT ![r] = MdGroups(sections_content[r])]
    /\ outcome' = [outcome EXCEPT ![r] =
            Returned(GenerateMarkdown(document[r].spec, sections_content[r]))]
    /\ cursor' = [cursor EXCEPT ![r] = "closed"]
    /\ log' = [log EXCEPT ![r] = Append(@, Entry("render", "none", "ok"))]
    /\ pc' = [pc EXCEPT ![r] = "gsc_done"]
    /\ UNCHANGED <<probe, store, writes, free, via, request, graph_row, conn, args,
                   document, sections, sections_content, content_paths,
                   response, acquired, released>>

GscStep(r) ==
    \/ GscEnter(r)
    \/ ResolveDocument(r)
    \/ PatternQuery(r)
    \/ SubtreeQuery(r)
    \/ Render(r)

Next ==
    \/ WriterDelete
    \/ WriterInsert
    \/ \E d \in DocIds, l \in SectionLists : Call("r1", "c1", d, l)
    \/ GscStep("r1")

\* one call of get_sections_content on the caller's connection, the
\* section table changing underneath
Spec == Init /\ [][Next]_vars

(* ------------------------------------------------------------------ *)
(* The route and its connection                                       *)
(* ------------------------------------------------------------------ *)

\* the connections db_handler.get_connection() can hand out
PoolAvailable(idle) == idle

\* a request arrives; get_db_connection enters the pool's context manager
GetDbConnectionEnter(r, procedure_id, entity) ==
    /\ pc[r] = "idle"
    /\ \E c \in PoolAvailable(free) :
        /\ free' = free \ {c}
        /\ conn' = [conn EXCEPT ![r] = c]
    /\ acquired' = [acquired EXCEPT ![r] = @ + 1]
    /\ via' = [via EXCEPT ![r] = "route"]
    /\ request' = [request EXCEPT ![r] = [procedure_id |-> procedure_id, entity |-> entity]]
    /\ pc' = [pc EXCEPT ![r] = "handler"]
    /\ UNCHANGED <<probe, store, writes, graph_row, args, cursor, document, sections,
                   sections_content, content_paths, md_groups, outcome, response,
                   log, released>>

\* the rows of graph JOIN procedure JOIN document the WHERE clause keeps
GraphRows(procedure_id, entity) ==
    { [id |-> g.id, procedure_id |-> p.id, entity |-> g.entity, version |-> g.version,
       document_id |-> d.id, retrieved_top_sections |-> p.retrieved_top_sections] :
        <<g, p, d>> \in
            { t \in GraphTable \X ProcedureTable \X DocumentTable :
                /\ t[1].procedure_id = t[2].id
                /\ t[2].document_id = t[3].id
                /\ t[2].id = procedure_id
                /\ LowerName(t[1].entity) = LowerName(entity) } }

\* ORDER BY g.version::int DESC LIMIT 1
LatestGraph(rows) == CHOOSE x \in rows : \A y \in rows : y.version <= x.version

\* the graph query of the route, up to the call of get_sections_content
GraphQuery(r) ==
    /\ pc[r] = "handler"
    /\ \E fails \in BOOLEAN :
        LET rows == GraphRows(request[r].procedure_id, request[r].entity)
        IN  IF fails
            THEN /\ response' = [response EXCEPT ![r] = [NoResponse EXCEPT !.status = 500]]
                 /\ log' = [log EXCEPT ![r] = Append(@, Entry("graph", conn[r], "fail"))]
                 /\ pc' = [pc EXCEPT ![r] = "responded"]
                 /\ UNCHANGED <<graph_row, args>>
            ELSE IF rows = {}
            THEN /\ response' = [response EXCEPT ![r] = [NoResponse EXCEPT !.status = 404]]
                 /\ log' = [log EXCEPT ![r] = Append(@, Entry("graph", conn[r], "empty"))]
                 /\ pc' = [pc EXCEPT ![r] = "responded"]
                 /\ UNCHANGED <<graph_row, args>>
            ELSE LET result == LatestGraph(rows)
                     top_sections == result.retrieved_top_sections
                 IN  /\ graph_row' = [graph_row EXCEPT ![r] = result]
                     /\ args' = [args EXCEPT ![r] =
                            [doc_id |-> result.document_id,
                             section_list |->
                                [null |-> FALSE,
                                 items |-> [i \in 1..Len(top_sections) |->
                                                StrElem(top_sections[i])]]]]
                     /\ log' = [log EXCEPT ![r] = Append(@, Entry("graph", conn[r], "ok"))]
                     /\ pc' = [pc EXCEPT ![r] = "call"]
                     /\ UNCHANGED response
    /\ UNCHANGED <<probe, store, writes, free, via, request, conn, cursor, document,
                   sections, sections_content, content_paths, md_groups, outcome,
                   acquired, released>>

\* except HTTPException: raise / except Exception: 500 / the normal return
RouteStatus(o) ==
    IF o.status = "returned" THEN 200
    ELSE IF o.type = "HTTPException" THEN 404
    ELSE 500

\* get_sections_content came back to the route
RouteFinish(r) ==
    /\ pc[r] = "gsc_done"
    /\ via[r] = "route"
    /\ response' = [response EXCEPT ![r] =
            [status |-> RouteStatus(outcome[r]),
             context_md |-> outcome[r].value,
             version |-> IF outcome[r].status = "returned"
                         THEN graph_row[r].version ELSE 0]]
    /\ pc' = [pc EXCEPT ![r] = "responded"]
    /\ UNCHANGED <<probe, store, writes, free, via, request, graph_row, conn, args,
                   cursor, document, sections, sections_content, content_paths,
                   md_groups, outcome, log, acquired, released>>

\* a mutant: the connection goes back only after a handler that did not raise
GetDbConnectionExitOnSuccess(r) ==
    /\ pc[r] = "responded"
    /\ IF response[r].status = 200
       THEN /\ free' = free \cup {conn[r]}
            /\ released' = [released EXCEPT ![r] = @ + 1]
       ELSE UNCHANGED <<free, released>>
    /\ pc' = [pc EXCEPT ![r] = "closed"]
    /\ UNCHANGED <<probe, store, writes, via, request, graph_row, conn, args, cursor,
                   document, sections, sections_content, content_paths, md_groups,
                   outcome, response, log, acquired>>

\* the handler is over; the pool's context manager exits
GetDbConnectionExit(r) ==
    /\ pc[r] = "responded"
    /\ free' = free \cup {conn[r]}
    /\ released' = [released EXCEPT ![r] = @ + 1]
    /\ pc' = [pc EXCEPT ![r] = "closed"]
    /\ UNCHANGED <<probe, store, writes, via, request, graph_row, conn, args, cursor,
                   document, sections, sections_content, content_paths, md_groups,
                   outcome, response, log, acquired>>

RouteStep(r) ==
    \/ \E p \in ProcedureIds, e \in Entities : GetDbConnectionEnter(r, p, e)
    \/ GraphQuery(r)
    \/ GscStep(r)
    \/ RouteFinish(r)
    \/ GetDbConnectionExit(r)

RouteNext == \E r \in ReqIds : RouteStep(r)

\* concurrent requests to the route, the section table at rest
RouteSpec == Init /\ [][RouteNext]_vars

(* ------------------------------------------------------------------ *)
(* The matching rule on its own                                       *)
(* ------------------------------------------------------------------ *)

\* the characters of the headings and patterns put to the matcher
ProbeChars == {"a", "A", " ", "%", "_", "\\"}

ProbePatterns == SeqsUpTo(ProbeChars, MaxLen)
ProbeHeadings == SeqsUpTo(ProbeChars, MaxLen + 1)

ProbeInit ==
    /\ probe \in { [heading |-> h, pattern |-> q, selected |-> "unset"] :
                        h \in ProbeHeadings, q \in ProbePatterns }
    /\ store = {}
    /\ writes = 0
    /\ free = Conns
    /\ pc = [r \in ReqIds |-> "idle"]
    /\ via = [r \in ReqIds |-> "none"]
    /\ request = [r \in ReqIds |-> NoRequest]
    /\ graph_row = [r \in ReqIds |-> NoRow]
    /\ conn = [r \in ReqIds |-> "none"]
    /\ args = [r \in ReqIds |-> NoArgs]
    /\ cursor = [r \in ReqIds |-> "none"]
    /\ document = [r \in ReqIds |-> NoDocument]
    /\ sections = [r \in ReqIds |-> <<>>]
    /\ sections_content = [r \in ReqIds |-> <<>>]
    /\ content_paths = [r \in ReqIds |-> <<>>]
    /\ md_groups = [r \in ReqIds |-> <<>>]
    /\ outcome = [r \in ReqIds |-> Pending]
    /\ response = [r \in ReqIds |-> NoResponse]
    /\ log = [r \in ReqIds |-> <<>>]
    /\ acquired = [r \in ReqIds |-> 0]
    /\ released = [r \in ReqIds |-> 0]

\* the WHERE clause of the first query decides on the heading
ProbeMatch ==
    /\ probe.selected = "unset"
    /\ probe' = [probe EXCEPT !.selected =
            IF HeadingMatches(probe.heading, probe.pattern) THEN "yes" ELSE "no"]
    /\ UNCHANGED <<store, writes, free, pc, via, request, graph_row, conn, args,
                   cursor, document, sections, sections_content, content_paths,
                   md_groups, outcome, response, log, acquired, released>>

ProbeSpec == ProbeInit /\ [][ProbeMatch]_vars

(* ------------------------------------------------------------------ *)
(* Properties                                                         *)
(* ------------------------------------------------------------------ *)

\* the matching rule as stated: the heading begins, case-insensitively,
\* with the pattern and one space
HeadingMatchesLiteralPrefix(heading, p) ==
    StartsWith(LowerText(heading), LowerText(p \o <<" ">>))

\* path p lies at or under path m, label for label
Under(p, m) == Len(m) <= Len(p) /\ \A k \in 1..Len(m) : p[k] = m[k]

Indices(q) == 1..Len(q)

StageOps == {"resolve", "match", "expand", "render"}
StageOrder == <<"resolve", "match", "expand", "render">>
IsStage(e) == e.op \in StageOps
Stages(r) == SelectSeq(log[r], IsStage)

\* the sections of the store under a matched path of request r
Expected(r) ==
    { s \in store : /\ s.document_id = document[r].id
                    /\ \E i \in Indices(sections[r]) : Under(s.path, sections[r][i].path) }

Project(s) == [heading |-> s.heading, level |-> s.level, content |-> s.content]

Range(q) == { q[i] : i \in Indices(q) }

\* C1: a heading is selected by a pattern exactly when it begins,
\* case-insensitively, with the pattern followed by one space, whatever
\* characters the pattern holds.
C1_SelectedIffLiteralPrefix ==
    probe.selected # "unset" =>
        (probe.selected = "yes"
            <=> HeadingMatchesLiteralPrefix(probe.heading, probe.pattern))

\* C2: the rows the subtree query returns are exactly the sections of the
\* resolved document that lie at or under a matched path: none of another
\* document, none outside every matched subtree, none missing.
C2_SubtreeExact ==
    [][\A r \in ReqIds :
        (pc[r] = "expand" /\ pc'[r] = "render") =>
            /\ Range(content_paths'[r]) = { s.path : s \in Expected(r) }
            /\ Range(sections_content'[r]) = { Project(s) : s \in Expected(r) }]_vars

C2_Witness ==
    /\ pc["r1"] = "render"
    /\ Len(sections["r1"]) = 2
    /\ Len(content_paths["r1"]) = 4
    /\ \E s \in store : s.document_id = "d1" /\ s.path \notin Range(content_paths["r1"])
    /\ \E s \in store : s.document_id = "d2" /\ s.path \in Range(content_paths["r1"])

\* C3: the sections handed to generate_markdown are in non-decreasing path
\* order, every section comes before its descendants, and the sections of
\* one subtree are never split by a section outside it, whatever the
\* order of the patterns or of the matcher's rows.
C3_DocumentOrder ==
    \A r \in ReqIds :
        LET q == content_paths[r]
        IN  /\ \A i, j \in Indices(q) : i < j => LtreeCompare(q[i], q[j]) <= 0
            /\ \A i, j \in Indices(q) : (q[i] # q[j] /\ Under(q[j], q[i])) => i < j
            /\ \A i, j, k \in Indices(q) :
                    (i < j /\ j < k) =>
                        \A n \in 1..Len(q[i]) :
                            LET root == SubSeq(q[i], 1, n)
                            IN  (Under(q[i], root) /\ Under(q[k], root)) => Under(q[j], root)

C3_Witness ==
    /\ pc["r1"] \in {"render", "gsc_done"}
    /\ Len(content_paths["r1"]) = 4
    /\ Len(sections["r1"]) = 2
    /\ LtreeCompare(sections["r1"][1].path, sections["r1"][2].path) > 0
    /\ args["r1"].section_list.items[1].v = <<"5", ".", "2">>

\* the arguments the contract rejects
InvalidArgs(a) ==
    \/ a.doc_id = "None"
    \/ a.section_list.null
    \/ a.section_list.items = <<>>
    \/ \E i \in Indices(a.section_list.items) : a.section_list.items[i] = NonStrElem

\* C5: with a missing document id, a missing or empty pattern list or a
\* non-string pattern, get_sections_content raises ValueError and has
\* opened no cursor and run neither the lookup nor a query.
C5_InvalidBeforeStore ==
    \A r \in ReqIds :
        (pc[r] \notin {"idle", "call"} /\ InvalidArgs(args[r])) =>
            /\ outcome[r] = Raised("ValueError", "", "InvalidArgument")
            /\ cursor[r] = "none"
            /\ \A i \in Indices(log[r]) : log[r][i].op \notin StageOps \cup {"cursor"}

C5_Witness ==
    /\ pc["r1"] = "gsc_done"
    /\ args["r1"].doc_id = "d1"
    /\ Len(args["r1"].section_list.items) = 2
    /\ args["r1"].section_list.items[2] = NonStrElem
    /\ outcome["r1"].type = "ValueError"

\* C6: the stages run in the order resolve, match, expand, render, each at
\* most once; a stage runs only after the one before it gave a non-empty
\* result; after a failed stage the call is over with an error; a string
\* is returned only after all four stages.
C6_StagesInOrder ==
    \A r \in ReqIds :
        LET st == Stages(r)
        IN  /\ Len(st) <= 4
            /\ \A i \in Indices(st) : st[i].op = StageOrder[i]
            /\ \A i \in Indices(st) : i < Len(st) => st[i].res = "ok"
            /\ (st # <<>> /\ st[Len(st)].res # "ok") =>
                    pc[r] \in {"gsc_done", "responded", "closed"}
                    /\ outcome[r].status = "raised"
            /\ outcome[r].status = "returned" =>
                    Len(st) = 4 /\ st[4].res = "ok"
            /\ (outcome[r].status = "raised" /\ outcome[r].kind # "InvalidArgument") =>
                    st # <<>> /\ st[Len(st)].res # "ok"

C6_Witness ==
    /\ pc["r1"] = "gsc_done"
    /\ outcome["r1"].kind = "NoMatch"
    /\ Len(Stages("r1")) = 2
    /\ sections_content["r1"] = <<>>

\* C7 as stated: the body emitted for a section is its content with the
\* surrounding whitespace removed, then one blank line; blank content
\* emits nothing after the heading and its blank line.
C7_BodyIsTrimmed ==
    \A r \in ReqIds : \A i \in Indices(md_groups[r]) :
        LET sec == sections_content[r][i]
            head == <<Hashes(sec.level) \o <<" ">> \o sec.heading, <<>>>>
        IN  md_groups[r][i] =
                IF Strip(sec.content) # <<>>
                THEN head \o <<Strip(sec.content), <<>>>>
                ELSE head

\* C7, amended: the body emitted for a section whose content is not blank
\* is the stored content as it is, surrounding whitespace included, then
\* one blank line; blank content emits nothing after the heading and its
\* blank line.
C7_BodyIsVerbatim ==
    \A r \in ReqIds : \A i \in Indices(md_groups[r]) :
        LET sec == sections_content[r][i]
            head == <<Hashes(sec.level) \o <<" ">> \o sec.heading, <<>>>>
        IN  md_groups[r][i] =
                IF \E k \in Indices(sec.content) : ~IsSpace(sec.content[k])
                THEN head \o <<sec.content, <<>>>>
                ELSE head

C7_Witness ==
    /\ outcome["r1"].status = "returned"
    /\ \E i \in Indices(md_groups["r1"]) :
            /\ Len(md_groups["r1"][i]) = 4
            /\ IsSpace(md_groups["r1"][i][3][1])
    /\ \E i \in Indices(md_groups["r1"]) :
            /\ Len(md_groups["r1"][i]) = 2
            /\ sections_content["r1"][i].content # <<>>

\* C8: when matched paths overlap, or several patterns select one section,
\* every section under a matched path is returned exactly once, is
\* rendered once, and the subtree query fails as empty only when no
\* section lies under a matched path.
C8_OncePerSection ==
    [][\A r \in ReqIds :
        /\ (pc[r] = "expand" /\ pc'[r] = "render") =>
                \A s \in Expected(r) :
                    Cardinality({ n \in Indices(content_paths'[r]) :
                                    content_paths'[r][n] = s.path }) = 1
        /\ (pc[r] = "expand" /\ pc'[r] = "gsc_done"
                /\ outcome'[r].kind = "ExpansionFailure") => Expected(r) = {}
        /\ (pc[r] = "match" /\ pc'[r] = "expand") =>
                \A i, j \in Indices(sections'[r]) :
                    i # j => sections'[r][i].path # sections'[r][j].path
        /\ (pc[r] = "render" /\ pc'[r] = "gsc_done") =>
                /\ Len(md_groups'[r]) = Len(content_paths[r])
                /\ \A i, j \in Indices(content_paths[r]) :
                        i # j => content_paths[r][i] # content_paths[r][j]]_vars

C8_Witness ==
    /\ outcome["r1"].status = "returned"
    /\ \E i, j \in Indices(sections["r1"]) :
            /\ i # j
            /\ Under(sections["r1"][j].path, sections["r1"][i].path)
            /\ sections["r1"][j].path \in Range(content_paths["r1"])
    /\ Len(md_groups["r1"]) = Len(content_paths["r1"])

\* C10 as stated: once the pattern query returned rows, the subtree query
\* of the same call returns every matched section and never comes back
\* empty, also when the section table changes between the two queries.
C10_ExpansionNeverFails ==
    \A r \in ReqIds :
        /\ outcome[r].kind # "ExpansionFailure"
        /\ pc[r] = "render" =>
                \A i \in Indices(sections[r]) :
                    sections[r][i].path \in Range(content_paths[r])

\* C10, amended: the subtree query returns every matched section that is
\* still in the section table when it runs, and it comes back empty only
\* when no matched section, and no section under one, is left there.
C10_ExpansionHoldsWhatIsLeft ==
    [][\A r \in ReqIds :
        /\ (pc[r] = "expand" /\ pc'[r] = "render") =>
                \A i \in Indices(sections[r]) :
                    (\E s \in store : /\ s.document_id = document[r].id
                                      /\ s.path = sections[r][i].path)
                        => sections[r][i].path \in Range(content_paths'[r])
        /\ (pc[r] = "expand" /\ pc'[r] = "gsc_done"
                /\ outcome'[r].kind = "ExpansionFailure") =>
                \A s \in store :
                    s.document_id = document[r].id =>
                        \A i \in Indices(sections[r]) : ~Under(s.path, sections[r][i].path)]_vars

C10_Witness ==
    /\ pc["r1"] = "render"
    /\ writes > 0
    /\ \E i \in Indices(sections["r1"]) :
            sections["r1"][i].path \notin Range(content_paths["r1"])
    /\ \E i \in Indices(sections["r1"]) :
            sections["r1"][i].path \in Range(content_paths["r1"])

HandlerStates ==
    {"handler", "call", "resolve", "match", "expand", "render", "gsc_done", "responded"}

\* the kind of exception a store failure comes out as
RetrievalFailureType == WrapException("OperationalError", "StoreFailure").type

\* C4: an unknown document and a pattern list that matches nothing come
\* out of get_sections_content as something other than what a store
\* failure comes out as, and the route answers them with 404.
C4_NotFoundDistinguishable ==
    \A r \in ReqIds :
        outcome[r].kind \in {"DocumentNotFound", "NoMatch"} =>
            /\ outcome[r].type # RetrievalFailureType
            /\ response[r].status \in {0, 404}

\* C9: a request takes one connection before its handler runs and holds
\* it, alone, through the graph query and every stage of
\* get_sections_content; every operation of the request uses it; it is
\* back in the pool when the request is over, on every exit path.
C9_ConnectionLifecycle ==
    /\ \A r \in ReqIds :
        /\ pc[r] \in HandlerStates =>
                /\ acquired[r] = 1 /\ released[r] = 0
                /\ conn[r] \in Conns /\ conn[r] \notin free
        /\ pc[r] = "closed" => acquired[r] = 1 /\ released[r] = 1
        /\ pc[r] = "idle" => acquired[r] = 0 /\ released[r] = 0
        /\ \A i \in Indices(log[r]) : log[r][i].conn \in {"none", conn[r]}
    /\ \A r1, r2 \in ReqIds :
        (r1 # r2 /\ pc[r1] \in HandlerStates /\ pc[r2] \in HandlerStates)
            => conn[r1] # conn[r2]
    /\ free = Conns \ { conn[r] : r \in { x \in ReqIds : pc[x] \in HandlerStates } }

C9_Witness ==
    /\ pc["r1"] = "closed"
    /\ response["r1"].status = 500
    /\ outcome["r1"].kind = "NoMatch"
    /\ conn["r1"] \in free
    /\ pc["r2"] = "expand"
    /\ conn["r2"] \notin free

====
